---- MODULE Spec2Model ----
(***************************************************************************)
(* The backend of the object-detection service: signup / login / "who am   *)
(* I" over a shared user store, and the detect / ask routes with their two *)
(* lazily built process-wide handles.                                      *)
(*                                                                         *)
(* A server process runs its handlers on one event loop.  No handler body  *)
(* awaits between its database calls, so inside one process a body runs to *)
(* completion before the next one starts: http[w] is the request worker w  *)
(* is serving.  Several server processes share the store (database.py      *)
(* takes its URL from the environment), and their database calls           *)
(* interleave: signup therefore takes one step per database call.  The     *)
(* one await of a body, file.read() in /api/detect, comes before the body  *)
(* touches any shared state, so that body is one step as well.             *)
(***************************************************************************)
EXTENDS Integers, Sequences, FiniteSets, TLC

\* ------------------------------------------------------------- bounds
MaxUsers == 2     \* stored records
MaxTime == 2      \* clock ticks
MaxLoads == 2     \* constructor runs per handle and process
MaxDets == 2      \* detections in one /api/ask batch

\* ------------------------------------------------------------ domains
Workers == {"w1", "w2"}
Usernames == {"alice", "bob"}
Emails == {"a@x.com", "b@x.com"}
Passwords == {"secret1", "secret2"}
\* the registrations tried: a second one with the username of the first, a
\* third with its email
Signups ==
    {<<"alice", "a@x.com", "secret1">>, <<"alice", "b@x.com", "secret2">>,
     <<"bob", "a@x.com", "secret1">>}
\* class labels, in alphabetical order
ClassNames == <<"cat", "dog">>

VARIABLES
    users,         \* the rows of the users table
    now,           \* the wall clock
    session,       \* session[w]: the request of w holds an open SessionLocal()
    http,          \* http[w]: the request worker w is serving, and its response
    _detector,     \* yolo_detector._detector of each process (0 is None)
    _service,      \* gemini_service._service of each process (0 is None)
    yolo_loads,    \* YOLODetector.__init__ runs of each process
    gemini_inits   \* GeminiService.__init__ runs of each process

vars == <<users, now, session, http, _detector, _service, yolo_loads, gemini_inits>>

\* ------------------------------------------------------ wire values
NoToken == [sig |-> "absent", sub |-> "", exp |-> 0]
NoContentType == [declared |-> FALSE, type |-> "", subtype |-> ""]
ContentType(t, s) == [declared |-> TRUE, type |-> t, subtype |-> s]
NoBody == [type |-> "none"]
Detail(msg) == [type |-> "detail", detail |-> msg]

HTTP_200_OK == 200
HTTP_201_CREATED == 201
HTTP_400_BAD_REQUEST == 400
HTTP_401_UNAUTHORIZED == 401
HTTP_500_INTERNAL_SERVER_ERROR == 500

Slot(route) ==
    [route |-> route, pc |-> "exit", username |-> "", email |-> "",
     password |-> "", token |-> NoToken, content_type |-> NoContentType,
     detections |-> <<>>, fault |-> "none", status |-> 0, body |-> NoBody]

Idle == [Slot("") EXCEPT !.pc = "idle"]

Free(w) == http[w].pc = "idle"

\* ------------------------------------------------- auth.py, models.py
ACCESS_TOKEN_EXPIRE_MINUTES == 1

\* the digest is opaque: only verify_password relates it to a password
get_password_hash(password) == [scheme |-> "bcrypt", digest |-> password]

verify_password(password, hashed) == hashed.digest = password

get_user_by_username(db, username) == {u \in db : u.username = username}

get_user_by_email(db, email) == {u \in db : u.email = email}

create_access_token(sub, expires_delta) ==
    [sig |-> "valid", sub |-> sub, exp |-> now + expires_delta]

\* jwt.decode: the signature, then the expiry, then the "sub" claim
TokenVerifies(token) ==
    /\ token.sig = "valid"
    /\ token.exp >= now
    /\ token.sub # ""

\* the rows get_current_user may resolve the token to (none: 401)
get_current_user(db, token) ==
    IF TokenVerifies(token) THEN get_user_by_username(db, token.sub) ELSE {}

User(id, username, email, hashed_password, created_at) ==
    [id |-> id, username |-> username, email |-> email,
     hashed_password |-> hashed_password, created_at |-> created_at]

\* ---------------------------------------------------------- schemas.py
\* variant: the ORM row returned as it is
UserResponse_orm(u) ==
    [id |-> u.id, username |-> u.username, email |-> u.email,
     hashed_password |-> u.hashed_password, created_at |-> u.created_at]

UserResponse(u) ==
    [id |-> u.id, username |-> u.username, email |-> u.email,
     created_at |-> u.created_at]

Token(access_token) ==
    [type |-> "token", access_token |-> access_token, token_type |-> "bearer"]

\* --------------------------------------------------------- database.py
\* get_db: SessionLocal() before the handler, db.close() in the finally
get_db(w) == [session EXCEPT ![w] = TRUE]

\* variant: db.close() after the yield, with no try/finally around it
get_db_close_on_success(s, w, status) ==
    IF status < HTTP_400_BAD_REQUEST THEN [s EXCEPT ![w] = FALSE] ELSE s

get_db_close(s, w, status) == [s EXCEPT ![w] = FALSE]

get_db_finally(w) ==
    /\ http[w].pc = "exit"
    /\ session' = get_db_close(session, w, http[w].status)
    /\ http' = [http EXCEPT ![w] = Idle]
    /\ UNCHANGED <<users, now, _detector, _service, yolo_loads, gemini_inits>>

\* ------------------------------------------------------ main.py: signup
Respond(w, status, body) ==
    [http EXCEPT ![w].pc = "exit", ![w].status = status, ![w].body = body]

\* requests that may still add a row
Pending == {w \in Workers : http[w].route = "signup" /\ http[w].pc # "exit"}

signup_begin(w, username, email, password) ==
    /\ Free(w)
    /\ Cardinality(users) + Cardinality(Pending) < MaxUsers
    /\ http' = [http EXCEPT ![w] = [Slot("signup") EXCEPT
                    !.pc = "username", !.username = username,
                    !.email = email, !.password = password]]
    /\ session' = get_db(w)
    /\ UNCHANGED <<users, now, _detector, _service, yolo_loads, gemini_inits>>

signup_check_username(w) ==
    /\ http[w].route = "signup" /\ http[w].pc = "username"
    /\ http' = IF get_user_by_username(users, http[w].username) # {}
               THEN Respond(w, HTTP_400_BAD_REQUEST, Detail("Username already registered"))
               ELSE [http EXCEPT ![w].pc = "email"]
    /\ UNCHANGED <<users, now, session, _detector, _service, yolo_loads, gemini_inits>>

\* variant: signup without the email lookup
signup_skip_email(w) ==
    /\ http[w].route = "signup" /\ http[w].pc = "email"
    /\ http' = [http EXCEPT ![w].pc = "create"]
    /\ UNCHANGED <<users, now, session, _detector, _service, yolo_loads, gemini_inits>>

signup_check_email(w) ==
    /\ http[w].route = "signup" /\ http[w].pc = "email"
    /\ http' = IF get_user_by_email(users, http[w].email) # {}
               THEN Respond(w, HTTP_400_BAD_REQUEST, Detail("Email already registered"))
               ELSE [http EXCEPT ![w].pc = "create"]
    /\ UNCHANGED <<users, now, session, _detector, _service, yolo_loads, gemini_inits>>

\* db.add(db_user); db.commit(): one more row, the others untouched
db_add(db, db_user) == db \cup {db_user}

\* response_model=schemas.UserResponse
signup_response(db_user) == [type |-> "user", user |-> UserResponse(db_user)]

signup_create(w) ==
    /\ http[w].route = "signup" /\ http[w].pc = "create"
    /\ LET db_user == User(Cardinality(users) + 1, http[w].username, http[w].email,
                           get_password_hash(http[w].password), now)
       IN /\ users' = db_add(users, db_user)
          /\ http' = Respond(w, HTTP_201_CREATED, signup_response(db_user))
    /\ UNCHANGED <<now, session, _detector, _service, yolo_loads, gemini_inits>>

\* ------------------------------------------------------- main.py: login
login_response(user, password) ==
    IF verify_password(password, user.hashed_password)
    THEN [status |-> HTTP_200_OK,
          body |-> Token(create_access_token(user.username, ACCESS_TOKEN_EXPIRE_MINUTES))]
    ELSE [status |-> HTTP_401_UNAUTHORIZED, body |-> Detail("Incorrect username or password")]

\* variant: a login that rewrites the stored hash of the user it authenticates
login_rehash(w, username, password) ==
    /\ Free(w)
    /\ session' = get_db(w)
    /\ \E user \in get_user_by_username(users, username) :
         /\ users' = (users \ {user}) \cup
                {[user EXCEPT !.hashed_password = [scheme |-> "argon2", digest |-> password]]}
         /\ http' = [http EXCEPT ![w] = [Slot("login") EXCEPT
                        !.username = username, !.password = password,
                        !.status = login_response(user, password).status,
                        !.body = login_response(user, password).body]]
    /\ UNCHANGED <<now, _detector, _service, yolo_loads, gemini_inits>>

login(w, username, password) ==
    /\ Free(w)
    /\ session' = get_db(w)
    /\ LET found == get_user_by_username(users, username)
           req == [Slot("login") EXCEPT !.username = username, !.password = password]
       IN IF found = {}
          THEN http' = [http EXCEPT ![w] = [req EXCEPT !.pc = "exit",
                            !.status = HTTP_401_UNAUTHORIZED,
                            !.body = Detail("Incorrect username or password")]]
          ELSE \E user \in found :
                 http' = [http EXCEPT ![w] = [req EXCEPT !.pc = "exit",
                            !.status = login_response(user, password).status,
                            !.body = login_response(user, password).body]]
    /\ UNCHANGED <<users, now, _detector, _service, yolo_loads, gemini_inits>>

\* ------------------------------------------- main.py: protected routes
\* variant: /api/ask without the get_current_user dependency
Protected_ask_open(route) == route \in {"me", "detect"}

Protected(route) == route \in {"me", "detect", "ask"}

Unauthorized(w, req) ==
    /\ http' = [http EXCEPT ![w] = [req EXCEPT !.pc = "exit",
                    !.status = HTTP_401_UNAUTHORIZED,
                    !.body = Detail("Could not validate credentials")]]
    /\ session' = IF req.token = NoToken THEN session ELSE get_db(w)
    /\ UNCHANGED <<users, now, _detector, _service, yolo_loads, gemini_inits>>

get_current_user_info(w, token) ==
    /\ Free(w)
    /\ LET req == [Slot("me") EXCEPT !.token = token]
           current == get_current_user(users, token)
       IN IF Protected("me") /\ current = {}
          THEN Unauthorized(w, req)
          ELSE /\ \E current_user \in current :
                    http' = [http EXCEPT ![w] = [req EXCEPT !.pc = "exit",
                                !.status = HTTP_200_OK,
                                !.body = [type |-> "user", user |-> UserResponse(current_user)]]]
               /\ session' = get_db(w)
               /\ UNCHANGED <<users, now, _detector, _service, yolo_loads, gemini_inits>>

\* ------------------------------------- yolo_detector.py: get_detector
\* variant: get_detector without the "is None" test
get_detector_unchecked(handle, loads, built) ==
    IF built THEN [handle |-> loads + 1, loads |-> loads + 1, raised |-> FALSE]
    ELSE [handle |-> 0, loads |-> loads + 1, raised |-> TRUE]

\* the handle and the constructor runs after one call; built: the
\* constructor, if it runs, returns (it raises otherwise)
get_detector(handle, loads, built) ==
    IF handle # 0 THEN [handle |-> handle, loads |-> loads, raised |-> FALSE]
    ELSE IF built THEN [handle |-> loads + 1, loads |-> loads + 1, raised |-> FALSE]
    ELSE [handle |-> 0, loads |-> loads + 1, raised |-> TRUE]

\* ------------------------------ gemini_service.py: get_gemini_service
get_gemini_service(handle, inits, built) ==
    IF handle # 0 THEN [handle |-> handle, inits |-> inits, raised |-> FALSE]
    ELSE IF built THEN [handle |-> inits + 1, inits |-> inits + 1, raised |-> FALSE]
    ELSE [handle |-> 0, inits |-> inits + 1, raised |-> TRUE]

\* ----------------------------------- gemini_service.py: GeminiService
Detection(class_name) == [class_name |-> class_name]

RECURSIVE _count_by_class(_)
_count_by_class(detections) ==
    IF detections = <<>> THEN << >>
    ELSE LET counts == _count_by_class(SubSeq(detections, 1, Len(detections) - 1))
             cls == detections[Len(detections)].class_name
             old == IF \E i \in 1..Len(counts) : counts[i][1] = cls
                    THEN (CHOOSE i \in 1..Len(counts) : counts[i][1] = cls) ELSE 0
         IN IF old = 0 THEN Append(counts, <<cls, 1>>)
            ELSE [counts EXCEPT ![old] = <<cls, counts[old][2] + 1>>]

\* the place of a class label in alphabetical order
Rank(cls) == CHOOSE i \in 1..Len(ClassNames) : ClassNames[i] = cls

\* sorted(class_counts.items())
RECURSIVE sorted(_)
sorted(items) ==
    IF items = <<>> THEN <<>>
    ELSE LET least == CHOOSE i \in 1..Len(items) :
                         \A j \in 1..Len(items) : Rank(items[i][1]) <= Rank(items[j][1])
             rest == [k \in 1..(Len(items) - 1) |->
                         IF k < least THEN items[k] ELSE items[k + 1]]
         IN <<items[least]>> \o sorted(rest)

\* "\n".join(f"(bullet) {cls}: {count}" ...)
RECURSIVE join_summary(_)
join_summary(items) ==
    IF items = <<>> THEN <<>>
    ELSE IF Len(items) = 1 THEN <<"* ", items[1][1], ": ", ToString(items[1][2])>>
    ELSE <<"* ", items[1][1], ": ", ToString(items[1][2]), "\n">> \o join_summary(Tail(items))

_create_fallback_response(detections) ==
    IF detections = <<>>
    THEN <<"No objects detected and AI service unavailable.">>
    ELSE <<"AI service temporarily unavailable. ", "Detected ", ToString(Len(detections)),
           " objects:\n">> \o join_summary(sorted(_count_by_class(detections)))

\* the text the language model returns
Generated == <<"response.text">>

\* variant: answer_question without the try/except around the call
answer_question_no_except(detections, api_error) ==
    [raised |-> api_error, answer |-> Generated]

\* api_error: model.generate_content raises
answer_question(detections, api_error) ==
    [raised |-> FALSE,
     answer |-> IF api_error THEN _create_fallback_response(detections) ELSE Generated]

\* ------------------------------------------------- main.py: /api/detect
StartsWithImage(content_type) == content_type.type = "image"

detect_objects(w, token, content_type, fault) ==
    /\ Free(w)
    /\ _detector[w] # 0 \/ yolo_loads[w] < MaxLoads
    /\ LET req == [Slot("detect") EXCEPT !.token = token, !.content_type = content_type]
           g == get_detector(_detector[w], yolo_loads[w], fault # "load")
       IN IF Protected("detect") /\ get_current_user(users, token) = {}
          THEN Unauthorized(w, req)
          ELSE /\ session' = get_db(w)
               /\ UNCHANGED <<users, now, _service, gemini_inits>>
               /\ IF ~content_type.declared
                  THEN \* None.startswith: AttributeError, outside the try
                       /\ http' = [http EXCEPT ![w] = [req EXCEPT
                                     !.status = HTTP_500_INTERNAL_SERVER_ERROR,
                                     !.body = [type |-> "server_error"]]]
                       /\ UNCHANGED <<_detector, yolo_loads>>
                  ELSE IF ~StartsWithImage(content_type)
                  THEN /\ http' = [http EXCEPT ![w] = [req EXCEPT
                                     !.status = HTTP_400_BAD_REQUEST,
                                     !.body = Detail("File must be an image")]]
                       /\ UNCHANGED <<_detector, yolo_loads>>
                  ELSE IF fault = "read"
                  THEN /\ http' = [http EXCEPT ![w] = [req EXCEPT !.fault = fault,
                                     !.status = HTTP_500_INTERNAL_SERVER_ERROR,
                                     !.body = Detail("Error processing image")]]
                       /\ UNCHANGED <<_detector, yolo_loads>>
                  ELSE /\ _detector' = [_detector EXCEPT ![w] = g.handle]
                       /\ yolo_loads' = [yolo_loads EXCEPT ![w] = g.loads]
                       /\ http' = [http EXCEPT ![w] =
                            IF g.raised \/ fault = "detect"
                            THEN [req EXCEPT
                                    !.fault = IF g.raised THEN "load" ELSE fault,
                                    !.status = HTTP_500_INTERNAL_SERVER_ERROR,
                                    !.body = Detail("Error processing image")]
                            ELSE [req EXCEPT
                                    !.status = HTTP_200_OK,
                                    !.body = [type |-> "detection", detector |-> g.handle]]]

\* ---------------------------------------------------- main.py: /api/ask
ask_question(w, token, detections, fault) ==
    /\ Free(w)
    /\ _service[w] # 0 \/ gemini_inits[w] < MaxLoads
    /\ LET req == [Slot("ask") EXCEPT !.token = token, !.detections = detections]
           g == get_gemini_service(_service[w], gemini_inits[w], fault # "init")
           a == answer_question(detections, fault = "generate")
       IN IF Protected("ask") /\ get_current_user(users, token) = {}
          THEN Unauthorized(w, req)
          ELSE /\ session' = get_db(w)
               /\ UNCHANGED <<users, now, _detector, yolo_loads>>
               /\ _service' = [_service EXCEPT ![w] = g.handle]
               /\ gemini_inits' = [gemini_inits EXCEPT ![w] = g.inits]
               /\ http' = [http EXCEPT ![w] =
                    IF g.raised \/ a.raised
                    THEN [req EXCEPT
                            !.fault = IF g.raised THEN "init" ELSE fault,
                            !.status = HTTP_500_INTERNAL_SERVER_ERROR,
                            !.body = Detail("Error processing question")]
                    ELSE [req EXCEPT
                            !.fault = IF fault = "generate" THEN fault ELSE "none",
                            !.status = HTTP_200_OK,
                            !.body = [type |-> "answer", answer |-> a.answer,
                                      service |-> g.handle]]]

\* ------------------------------------------- main.py: /health and /
health_check(w) ==
    /\ Free(w)
    /\ http' = [http EXCEPT ![w] = [Slot("health") EXCEPT
                    !.status = HTTP_200_OK,
                    !.body = [type |-> "health", status |-> "healthy"]]]
    /\ UNCHANGED <<users, now, session, _detector, _service, yolo_loads, gemini_inits>>

root(w) ==
    /\ Free(w)
    /\ http' = [http EXCEPT ![w] = [Slot("root") EXCEPT
                    !.status = HTTP_200_OK,
                    !.body = [type |-> "root", message |-> "YOLO Object Detection API"]]]
    /\ UNCHANGED <<users, now, session, _detector, _service, yolo_loads, gemini_inits>>

\* ----------------------------------------------------------- the clock
Tick ==
    /\ now < MaxTime
    /\ now' = now + 1
    /\ UNCHANGED <<users, session, http, _detector, _service, yolo_loads, gemini_inits>>

\* ------------------------------------------------------ specifications
Init ==
    /\ users = {}
    /\ now = 0
    /\ session = [w \in Workers |-> FALSE]
    /\ http = [w \in Workers |-> Idle]
    /\ _detector = [w \in Workers |-> 0]
    /\ _service = [w \in Workers |-> 0]
    /\ yolo_loads = [w \in Workers |-> 0]
    /\ gemini_inits = [w \in Workers |-> 0]

Tokens ==
    {NoToken, [sig |-> "forged", sub |-> "alice", exp |-> MaxTime + 1],
     [sig |-> "valid", sub |-> "", exp |-> MaxTime + 1]}
    \cup {[sig |-> "valid", sub |-> u, exp |-> e] :
            u \in Usernames, e \in 1..(MaxTime + 1)}

\* the tokens tried on /api/detect and /api/ask: none, a forged one, one
\* that expires during the run, two that outlive it
MediaTokens ==
    {NoToken, [sig |-> "forged", sub |-> "alice", exp |-> MaxTime + 1],
     [sig |-> "valid", sub |-> "alice", exp |-> 1],
     [sig |-> "valid", sub |-> "alice", exp |-> MaxTime + 1],
     [sig |-> "valid", sub |-> "bob", exp |-> MaxTime + 1]}

\* an image, a non-image, an empty declared type, no declared type
ContentTypes ==
    {ContentType("image", "png"), ContentType("text", "plain"), ContentType("", ""),
     NoContentType}

Batches ==
    UNION {[1..n -> {Detection(ClassNames[i]) : i \in 1..Len(ClassNames)}] : n \in 0..MaxDets}

\* one server process, every route
Server == {"w1"}

Next ==
    \/ \E w \in Server, s \in Signups : signup_begin(w, s[1], s[2], s[3])
    \/ \E w \in Server : signup_check_username(w)
    \/ \E w \in Server : signup_check_email(w)
    \/ \E w \in Server : signup_create(w)
    \/ \E w \in Server, u \in Usernames, p \in Passwords : login(w, u, p)
    \/ \E w \in Server, t \in Tokens : get_current_user_info(w, t)
    \/ \E w \in Server, t \in MediaTokens, c \in ContentTypes,
          f \in {"none", "read", "load", "detect"} : detect_objects(w, t, c, f)
    \/ \E w \in Server, t \in MediaTokens, d \in Batches,
          f \in {"none", "init", "generate"} : ask_question(w, t, d, f)
    \/ \E w \in Server : health_check(w)
    \/ \E w \in Server : root(w)
    \/ \E w \in Server : get_db_finally(w)
    \/ Tick

Spec == Init /\ [][Next]_vars

\* several server processes on one store, the routes that use it
NextAuth ==
    \/ \E w \in Workers, s \in Signups : signup_begin(w, s[1], s[2], s[3])
    \/ \E w \in Workers : signup_check_username(w)
    \/ \E w \in Workers : signup_check_email(w)
    \/ \E w \in Workers : signup_create(w)
    \/ \E w \in Workers, u \in Usernames, p \in Passwords : login(w, u, p)
    \/ \E w \in Workers, t \in Tokens : get_current_user_info(w, t)
    \/ \E w \in Workers : get_db_finally(w)
    \/ Tick

SpecAuth == Init /\ [][NextAuth]_vars
\* fairness: the event loop runs every handler it has started to its end,
\* and the dependency's finally block after it
Advance(w) ==
    signup_check_username(w) \/ signup_check_email(w) \/ signup_create(w) \/ get_db_finally(w)

FairSpecAuth == SpecAuth /\ \A w \in Workers : WF_vars(Advance(w))

\* ---------------------------------------------------------------- claims
\* a step in which worker w answers a request it took in that same step
Answers(w, route) == http[w].pc = "idle" /\ http'[w].pc = "exit" /\ http'[w].route = route

\* C1: a signup whose username (resp. email) is stored when the handler looks
\* it up is answered 400, and no step of a signup that is answered 400 writes
\* the store: the rows after it are the rows before it.
C1_DuplicateSignupRejected ==
    [][\A w \in Workers :
         LET r == http[w] IN
         /\ (r.route = "signup" /\ r.pc = "username" /\ http'[w] # r
               /\ (\E u \in users : u.username = r.username))
            => (http'[w].pc = "exit" /\ http'[w].status = 400 /\ users' = users)
         /\ (r.route = "signup" /\ r.pc = "email" /\ http'[w] # r
               /\ (\E u \in users : u.email = r.email))
            => (http'[w].pc = "exit" /\ http'[w].status = 400 /\ users' = users)
         /\ (http'[w].route = "signup" /\ http'[w].status = 400 /\ http'[w] # r)
            => users' = users]_vars

C1_Witness ==
    \E w \in Workers :
        /\ http[w].route = "signup" /\ http[w].pc = "exit" /\ http[w].status = 400
        /\ http[w].body = Detail("Email already registered")
        /\ \E u \in users : u.email = http[w].email /\ u.username # http[w].username

\* C2: no two stored user records share a username, and no two share an email.
C2_UniqueUsers ==
    \A u \in users, v \in users :
        u # v => (u.username # v.username /\ u.email # v.email)

\* C3: a login with a registered (username, password) pair is answered with a
\* bearer token that verifies and resolves to that username; a login with any
\* other pair is answered 401 and carries no token.
Registered(username, password) ==
    \E u \in users : u.username = username /\ u.hashed_password.digest = password

C3_Login ==
    [][\A w \in Workers :
         Answers(w, "login") =>
            LET r == http'[w] IN
            IF Registered(r.username, r.password)
            THEN /\ r.status = 200
                 /\ r.body.type = "token" /\ r.body.token_type = "bearer"
                 /\ r.body.access_token.sig = "valid"
                 /\ r.body.access_token.exp >= now
                 /\ r.body.access_token.sub = r.username
                 /\ \E u \in users : u.username = r.username
            ELSE r.status = 401 /\ r.body.type # "token"]_vars

\* C4: a request to /api/me, /api/detect or /api/ask with no token, or with
\* a token that does not verify (bad signature, no identity claim, expired,
\* or naming no stored user) is answered 401 and writes nothing: the store,
\* both handles and both constructor counts are as before.
Unverifiable(token) ==
    \/ token = NoToken
    \/ token.sig # "valid"
    \/ token.sub = ""
    \/ token.exp < now
    \/ ~ \E u \in users : u.username = token.sub

C4_Unauthenticated ==
    [][\A w \in Workers : \A route \in {"me", "detect", "ask"} :
         (Answers(w, route) /\ Unverifiable(http'[w].token)) =>
            /\ http'[w].status = 401
            /\ UNCHANGED <<users, _detector, _service, yolo_loads, gemini_inits>>]_vars

C4_Witness ==
    /\ users # {}
    /\ http["w1"].route = "ask" /\ http["w1"].pc = "exit" /\ http["w1"].status = 401
    /\ http["w1"].token.sig = "valid" /\ http["w1"].token.exp < now
    /\ _service["w1"] = 0 /\ gemini_inits["w1"] = 0

\* C5: an authenticated /api/ask whose language-model service fails, in any
\* way it can fail, is answered 200 with the fallback text: the fixed message
\* for the empty batch, else the total and the exact count of every class.
ClassCount(detections, cls) ==
    Cardinality({k \in 1..Len(detections) : detections[k].class_name = cls})

IsFallback(answer, detections) ==
    IF detections = <<>>
    THEN answer = <<"No objects detected and AI service unavailable.">>
    ELSE /\ Len(answer) >= 4
         /\ answer[1] = "AI service temporarily unavailable. "
         /\ answer[3] = ToString(Len(detections))
         /\ \A i \in 1..Len(ClassNames) :
              LET n == ClassCount(detections, ClassNames[i]) IN
              /\ n > 0 => \E j \in 5..(Len(answer) - 3) :
                            /\ answer[j] = "* " /\ answer[j + 1] = ClassNames[i]
                            /\ answer[j + 3] = ToString(n)
              /\ n = 0 => \A j \in 5..Len(answer) : answer[j] # ClassNames[i]

AskAnswered(w) ==
    http[w].route = "ask" /\ http[w].pc = "exit" /\ http[w].status # 401

C5_FallbackOnAnyFailure ==
    \A w \in Workers :
        (AskAnswered(w) /\ http[w].fault \in {"init", "generate"}) =>
            /\ http[w].status = 200
            /\ http[w].body.type = "answer"
            /\ IsFallback(http[w].body.answer, http[w].detections)

\* C5, amended: when the generate_content call fails the answer is 200 with
\* the fallback text; when the service handle cannot be built it is a 500.
C5_FallbackOnApiFailure ==
    \A w \in Workers :
        /\ (AskAnswered(w) /\ http[w].fault = "generate") =>
              /\ http[w].status = 200
              /\ http[w].body.type = "answer"
              /\ IsFallback(http[w].body.answer, http[w].detections)
        /\ (AskAnswered(w) /\ http[w].fault = "init") => http[w].status = 500

C5_Witness ==
    /\ AskAnswered("w1") /\ http["w1"].fault = "generate" /\ http["w1"].status = 200
    /\ Len(http["w1"].detections) = 2
    /\ http["w1"].detections[1].class_name = "dog"
    /\ http["w1"].detections[2].class_name = "cat"

\* C6: in one process each constructor runs at most once.
C6_ConstructedOnce ==
    \A w \in Workers : yolo_loads[w] <= 1 /\ gemini_inits[w] <= 1

\* C6, amended: no constructor runs before the first /api/detect (resp.
\* /api/ask) body; once a handle is set it is never replaced and its
\* constructor never runs again, and every answer comes from that instance;
\* a constructor that raised left the handle unset.
C6_HandleSetOnce ==
    [][\A w \in Workers :
         /\ _detector[w] # 0 =>
               (_detector'[w] = _detector[w] /\ yolo_loads'[w] = yolo_loads[w])
         /\ _service[w] # 0 =>
               (_service'[w] = _service[w] /\ gemini_inits'[w] = gemini_inits[w])
         /\ yolo_loads'[w] # yolo_loads[w] =>
               (Answers(w, "detect") /\ yolo_loads'[w] = yolo_loads[w] + 1)
         /\ gemini_inits'[w] # gemini_inits[w] =>
               (Answers(w, "ask") /\ gemini_inits'[w] = gemini_inits[w] + 1)
         /\ (Answers(w, "detect") /\ http'[w].status = 200) =>
               (_detector'[w] # 0 /\ http'[w].body.detector = _detector'[w])
         /\ (Answers(w, "ask") /\ http'[w].status = 200) =>
               (_service'[w] # 0 /\ http'[w].body.service = _service'[w])]_vars

C6_Witness ==
    /\ gemini_inits["w1"] = 2 /\ _service["w1"] = 2
    /\ yolo_loads["w1"] = 1 /\ _detector["w1"] = 1
    /\ http["w1"].route = "detect" /\ http["w1"].pc = "exit" /\ http["w1"].status = 200

\* C7: a signup whose username and email are both not stored when the
\* handler looks them up is answered 201, adds exactly one record, with that
\* username and email, and answers with the id, username, email and creation
\* time of that record and nothing else.
C7_SignupCreates ==
    [][\A w \in Workers :
         LET r == http[w] IN
         (r.route = "signup" /\ http'[w] # r) =>
            /\ (r.pc = "username" /\ ~ \E u \in users : u.username = r.username)
                  => http'[w].pc = "email"
            /\ (r.pc = "email" /\ ~ \E u \in users : u.email = r.email)
                  => http'[w].pc = "create"
            /\ r.pc = "create" =>
                  /\ http'[w].pc = "exit" /\ http'[w].status = 201
                  /\ \E u \in users' \ users :
                        /\ users' = users \cup {u}
                        /\ u.username = r.username /\ u.email = r.email
                        /\ http'[w].body.type = "user"
                        /\ DOMAIN http'[w].body.user = {"id", "username", "email", "created_at"}
                        /\ http'[w].body.user.id = u.id
                        /\ http'[w].body.user.username = u.username
                        /\ http'[w].body.user.email = u.email
                        /\ http'[w].body.user.created_at = u.created_at]_vars

C7_Witness ==
    \E w \in Workers :
        /\ http[w].route = "signup" /\ http[w].pc = "exit" /\ http[w].status = 201
        /\ Cardinality(users) = 2
        /\ \E u \in users : u.id = 2 /\ http[w].body.user = UserResponse(u)
                              /\ u.username = http[w].username

\* C8: an authenticated /api/detect whose file declares no image content
\* type (or none at all) is answered 400 and leaves the detector alone; a
\* failure while reading, building the detector or detecting is answered 500.
C8_DetectErrors ==
    [][\A w \in Workers :
         (Answers(w, "detect") /\ http'[w].status # 401) =>
            LET r == http'[w] IN
            /\ ~(r.content_type.declared /\ r.content_type.type = "image") =>
                  /\ r.status = 400
                  /\ UNCHANGED <<_detector, yolo_loads>>
            /\ r.fault # "none" => r.status = 500]_vars

\* C9: no request ends with its session open, and every session that is
\* opened is closed.
C9_SessionReleased ==
    /\ [](\A w \in Workers : http[w].pc = "idle" => ~session[w])
    /\ \A w \in Workers : session[w] ~> ~session[w]

C9_Witness ==
    \E w \in Workers :
        /\ http[w].route = "signup" /\ http[w].pc = "exit" /\ http[w].status = 400
        /\ session[w]

\* C10: a stored record is never changed or removed, and only the create
\* step of a signup, answered 201, changes the store.
C10_StoreAppendOnly ==
    [][/\ users \subseteq users'
       /\ users' # users =>
             \E w \in Workers :
                /\ http[w].route = "signup" /\ http[w].pc = "create"
                /\ http'[w].status = 201
                /\ Cardinality(users') = Cardinality(users) + 1]_vars

C10_Witness ==
    /\ \E u \in users : u.created_at < now
    /\ http["w1"].route = "login" /\ http["w1"].pc = "exit" /\ http["w1"].status = 200
====
